---- MODULE Spec2Model ----
(***************************************************************************)
(* Model of porttelefon-navnegenerator/generate_intercom_pdf.py:           *)
(* parse_seksjonsid, the row loop of read_rows, build_boxes_for_oppgang    *)
(* and the page loop of main.  Python strings are sequences of             *)
(* one-character strings, so that strip, upper, split and the regular      *)
(* expression of parse_seksjonsid are computed and not assumed.            *)
(***************************************************************************)
EXTENDS Integers, Sequences, FiniteSets, TLC

VARIABLES
    pc,                \* position of the modelled run
    seksjonsid,        \* the argument of parse_seksjonsid / the identifier field of a row
    navn,              \* the name field of a row
    result,            \* what parse_seksjonsid returned or raised; the record of the row
    rows_for_oppgang,  \* build_boxes_for_oppgang: its argument
    k,                 \* build_boxes_for_oppgang: index of the next row of the placing loop
    offset,            \* build_boxes_for_oppgang: local offset
    single8,           \* build_boxes_for_oppgang: local single8
    lines,             \* build_boxes_for_oppgang: local lines
    target,            \* build_boxes_for_oppgang: locals side, band, pos of the last iteration
    boxes,             \* build_boxes_for_oppgang: the returned list
    csv,               \* main: the data rows of the input file, <<identifier, name>> each
    i,                 \* read_rows: index of the next data row
    rows,              \* read_rows: local rows
    todo,              \* main: sorted(by_oppgang.keys()) not yet visited
    pages,             \* main: the pages drawn on the canvas, in order
    canvas,            \* main: "none" | "open" | "saved"
    any_pages          \* main: local any_pages

vars == <<pc, seksjonsid, navn, result, rows_for_oppgang, k, offset, single8,
          lines, target, boxes, csv, i, rows, todo, pages, canvas, any_pages>>

(***************************************************************************)
(* Bounds of the model.                                                    *)
(***************************************************************************)
MaxLen == 6       \* longest identifier string drawn for parse_seksjonsid
MaxRows == 2      \* longest free-form entrance group drawn for build_boxes_for_oppgang
MaxDup == 3       \* most listings of one apartment in a group of duplicates
MaxFloor == 9     \* floors 0..MaxFloor are drawn (1..8 are placeable)
MaxCsvRows == 3   \* most data rows of an input file

(***************************************************************************)
(* Python str operations.                                                  *)
(***************************************************************************)
DigitChars == <<"0", "1", "2", "3", "4", "5", "6", "7", "8", "9">>

IsDigit(c) == \E n \in 1..Len(DigitChars) : DigitChars[n] = c

DigitVal(c) == (CHOOSE n \in 1..Len(DigitChars) : DigitChars[n] = c) - 1

IsSpace(c) == c = " "

UpperChar(c) == IF c = "a" THEN "A" ELSE IF c = "b" THEN "B" ELSE IF c = "h" THEN "H"
                ELSE IF c = "o" THEN "O" ELSE IF c = "l" THEN "L" ELSE c

Upper(s) == [n \in 1..Len(s) |-> UpperChar(s[n])]

RECURSIVE LStrip(_)
LStrip(s) == IF s /= <<>> /\ IsSpace(Head(s)) THEN LStrip(Tail(s)) ELSE s

RECURSIVE RStrip(_)
RStrip(s) == IF s /= <<>> /\ IsSpace(s[Len(s)]) THEN RStrip(SubSeq(s, 1, Len(s) - 1)) ELSE s

Strip(s) == LStrip(RStrip(s))

\* index of the first '|' of s, 0 when there is none
FirstBar(s) == IF \E n \in 1..Len(s) : s[n] = "|"
               THEN CHOOSE n \in 1..Len(s) : s[n] = "|" /\ \A m \in 1..(n - 1) : s[m] /= "|"
               ELSE 0

\* s.split("|", 1)
Split1(s) == IF FirstBar(s) = 0 THEN <<s>>
             ELSE <<SubSeq(s, 1, FirstBar(s) - 1), SubSeq(s, FirstBar(s) + 1, Len(s))>>

\* s.split("|")
RECURSIVE SplitAll(_)
SplitAll(s) == IF FirstBar(s) = 0 THEN <<s>>
               ELSE <<SubSeq(s, 1, FirstBar(s) - 1)>>
                    \o SplitAll(SubSeq(s, FirstBar(s) + 1, Len(s)))

\* faulty variant: the pattern without its end anchor, re.search(r'(\d{4})', right)
Last4Anywhere(right) ==
    IF \E n \in 1..(Len(right) - 3) : \A m \in n..(n + 3) : IsDigit(right[m])
    THEN LET first == CHOOSE n \in 1..(Len(right) - 3) :
                          /\ \A m \in n..(n + 3) : IsDigit(right[m])
                          /\ \A j \in 1..(n - 1) : \E m \in j..(j + 3) : ~IsDigit(right[m])
         IN  SubSeq(right, first, first + 3)
    ELSE <<>>

\* re.search(r'(\d{4})\s*$', right): group 1, or <<>> when there is no match
Last4(right) ==
    LET t == RStrip(right) IN
    IF Len(t) >= 4 /\ \A n \in (Len(t) - 3)..Len(t) : IsDigit(t[n])
    THEN SubSeq(t, Len(t) - 3, Len(t))
    ELSE <<>>

(***************************************************************************)
(* parse_seksjonsid                                                        *)
(***************************************************************************)
Raise(msg) == [ok |-> FALSE, error |-> msg]

\* side_by_unit = 'L' if unit == '01' else 'R'
SideByUnit(unit) == IF unit = <<"0", "1">> THEN "L" ELSE "R"

parse_seksjonsid(s) ==
    IF s = <<>> THEN Raise("Tom SeksjonsID")
    ELSE IF Len(Split1(s)) /= 2 THEN Raise("Mangler '|'")
    ELSE LET parts == [n \in 1..2 |-> Strip(Split1(s)[n])]
             last4 == Last4(parts[2])
         IN  IF last4 = <<>> THEN Raise("Fant ikke 4 sifre")
             ELSE [ok           |-> TRUE,
                   oppgang      |-> Upper(parts[1]),
                   etasje       |-> 10 * DigitVal(last4[1]) + DigitVal(last4[2]),
                   unit         |-> SubSeq(last4, 3, 4),
                   side_by_unit |-> SideByUnit(SubSeq(last4, 3, 4))]

(***************************************************************************)
(* build_boxes_for_oppgang                                                 *)
(***************************************************************************)
\* a slot of lines: None, or Some(text) once a row was written to it
None == <<>>

Some(text) == <<text>>

Sides == {"L", "R"}

Bands == {"TOP", "BOT"}

base_slot == (8 :> 0) @@ (7 :> 1) @@ (6 :> 2) @@ (5 :> 3) @@
             (4 :> 4) @@ (3 :> 5) @@ (2 :> 6) @@ (1 :> 7)

bottom_set == {1, 2, 3, 4}

present_floors(rs) ==
    {rs[n].etasje : n \in {m \in 1..Len(rs) : 1 <= rs[m].etasje /\ rs[m].etasje <= 8}}

\* faulty variant: every missing floor of 1..8 counted, not only those of bottom_set
OffsetAllMissing(rs) == Cardinality((1..8) \ present_floors(rs))

Offset(rs) == Cardinality(bottom_set \ present_floors(rs))

Single8(rs) == Cardinality({n \in 1..Len(rs) : rs[n].etasje = 8}) = 1

EmptyLines == [key \in Sides \X Bands |-> [p \in 0..3 |-> None]]

\* faulty variant: the override applied whatever the floor of the row
SideOfAnyFloor(r, s8) == IF s8 THEN "R" ELSE r.side_unit

\* side ut fra unit, evt. overstyr for 8. etasje ved single8
SideOf(r, s8) == IF r.etasje = 8 /\ s8 THEN "R" ELSE r.side_unit

\* faulty variant: the window shifted up instead of down
IdxOfUp(r, off) == base_slot[r.etasje] - off

IdxOf(r, off) == base_slot[r.etasje] + off

\* faulty variant: off by one at the band boundary
BandOfStrict(idx) == IF idx < 3 THEN "TOP" ELSE "BOT"

BandOf(idx) == IF idx <= 3 THEN "TOP" ELSE "BOT"

PosOf(idx) == IF BandOf(idx) = "TOP" THEN idx ELSE idx - 4

\* the cell one iteration of the placing loop writes: <<>> when it continues
\* without writing, else <<[side, band, pos]>>
Target(r, off, s8) ==
    IF r.etasje \notin DOMAIN base_slot THEN <<>>
    ELSE IF ~(0 <= IdxOf(r, off) /\ IdxOf(r, off) <= 7) THEN <<>>
    ELSE <<[side |-> SideOf(r, s8),
            band |-> BandOf(IdxOf(r, off)),
            pos  |-> PosOf(IdxOf(r, off))]>>

\* faulty variant: a written slot is not overwritten (first write wins)
PlaceFirstWins(ls, r, off, s8) ==
    IF Target(r, off, s8) = <<>> THEN ls
    ELSE LET t == Target(r, off, s8)[1]
         IN  IF ls[<<t.side, t.band>>][t.pos] /= None THEN ls
             ELSE [ls EXCEPT ![<<t.side, t.band>>][t.pos] = Some(r.display)]

\* one iteration of the placing loop
Place(ls, r, off, s8) ==
    IF Target(r, off, s8) = <<>> THEN ls
    ELSE LET t == Target(r, off, s8)[1]
         IN  [ls EXCEPT ![<<t.side, t.band>>][t.pos] = Some(r.display)]

RECURSIVE PlaceAll(_, _, _, _)
PlaceAll(ls, rs, off, s8) ==
    IF rs = <<>> THEN ls
    ELSE PlaceAll(Place(ls, Head(rs), off, s8), Tail(rs), off, s8)

Candidates(ls) ==
    << [column |-> "L", order |-> 1, lines |-> ls[<<"L", "TOP">>]],
       [column |-> "R", order |-> 1, lines |-> ls[<<"R", "TOP">>]],
       [column |-> "L", order |-> 2, lines |-> ls[<<"L", "BOT">>]],
       [column |-> "R", order |-> 2, lines |-> ls[<<"R", "BOT">>]] >>

\* Python truth value of a slot: neither None nor the empty string
Truthy(x) == x /= None /\ x[1] /= <<>>

Keep(b) == \E p \in DOMAIN b.lines : Truthy(b.lines[p])

\* faulty variant: nothing filtered away
FilterNothing(bs) == bs

FilterBoxes(bs) == SelectSeq(bs, Keep)

build_boxes_for_oppgang(rs) ==
    IF rs = <<>> THEN <<>>
    ELSE FilterBoxes(Candidates(PlaceAll(EmptyLines, rs, Offset(rs), Single8(rs))))

(***************************************************************************)
(* Entrance groups drawn for build_boxes_for_oppgang: every sequence of    *)
(* at most MaxRows records, and the regular stairwells (one or two units   *)
(* on each floor of a set of floors, listed upwards or downwards).         *)
(***************************************************************************)
Floors == 0..MaxFloor

Texts == {<<>>, <<"X">>, <<"Y">>}

\* texts of the free-form groups: the empty text and one name
FreeTexts == {<<>>, <<"X">>}

Record(f, unit, text) ==
    [etasje |-> f, unit |-> unit, side_unit |-> SideByUnit(unit), display |-> text]

FreeRecords ==
    {Record(f, unit, text) : f \in Floors, unit \in {<<"0", "1">>, <<"0", "2">>}, text \in FreeTexts}

SeqsUpTo(S, n) == UNION {[1..m -> S] : m \in 0..n}

UnitText(f, u) == <<"H", DigitChars[(f \div 10) + 1], DigitChars[(f % 10) + 1], "0", u>>

StairRecord(f, u) == Record(f, <<"0", u>>, UnitText(f, u))

\* the floors of F in ascending order
RECURSIVE Ascending(_)
Ascending(F) ==
    IF F = {} THEN <<>>
    ELSE LET lo == CHOOSE f \in F : \A g \in F : f <= g
         IN  <<lo>> \o Ascending(F \ {lo})

Reverse(q) == [n \in 1..Len(q) |-> q[Len(q) + 1 - n]]

RECURSIVE Flatten(_)
Flatten(qq) == IF qq = <<>> THEN <<>> ELSE Head(qq) \o Flatten(Tail(qq))

Stair(F, units, down) ==
    LET fl == IF down THEN Reverse(Ascending(F)) ELSE Ascending(F)
    IN  Flatten([n \in 1..Len(fl) |->
                    [m \in 1..Len(units) |-> StairRecord(fl[n], units[m])]])

StairGroups ==
    {Stair(F, units, down) :
        F \in SUBSET Floors,
        units \in {<<"1">>, <<"2">>, <<"3">>, <<"1", "2">>},
        down \in BOOLEAN}

\* one apartment listed several times ("duplikate inputlinjer mot samme posisjon")
DupGroups ==
    {[n \in 1..Len(texts) |-> Record(f, unit, texts[n])] :
        f \in Floors, unit \in {<<"0", "1">>, <<"0", "2">>}, texts \in SeqsUpTo(Texts, MaxDup)}

Groups == SeqsUpTo(FreeRecords, MaxRows) \cup StairGroups \cup DupGroups

ParseIdle == seksjonsid = <<>> /\ navn = <<>> /\ result = <<>>

BoxesIdle ==
    /\ rows_for_oppgang = <<>> /\ k = 0 /\ offset = 0 /\ single8 = FALSE
    /\ lines = EmptyLines /\ target = <<>> /\ boxes = <<>>

MainIdle ==
    /\ csv = <<>> /\ i = 0 /\ rows = <<>> /\ todo = <<>> /\ pages = <<>>
    /\ canvas = "none" /\ any_pages = FALSE

InitBoxes ==
    /\ pc = "boxes"
    /\ rows_for_oppgang \in Groups
    /\ k = 0 /\ offset = 0 /\ single8 = FALSE
    /\ lines = EmptyLines /\ target = <<>> /\ boxes = <<>>
    /\ ParseIdle /\ MainIdle

OtherThanBoxes == <<seksjonsid, navn, result, csv, i, rows, todo, pages, canvas, any_pages>>

\* if not rows_for_oppgang: return []
BoxesOfNothing ==
    /\ pc = "boxes" /\ rows_for_oppgang = <<>>
    /\ boxes' = <<>>
    /\ pc' = "boxes_done"
    /\ UNCHANGED <<rows_for_oppgang, k, offset, single8, lines, target>>
    /\ UNCHANGED OtherThanBoxes

\* steps 1) to 4): present_floors, offset, single8, lines
BoxesSetup ==
    /\ pc = "boxes" /\ rows_for_oppgang /= <<>>
    /\ offset' = Offset(rows_for_oppgang)
    /\ single8' = Single8(rows_for_oppgang)
    /\ lines' = EmptyLines
    /\ k' = 1
    /\ pc' = "boxes_loop"
    /\ UNCHANGED <<rows_for_oppgang, target, boxes>>
    /\ UNCHANGED OtherThanBoxes

\* step 5), one iteration: for r in rows_for_oppgang
BoxesPlace ==
    /\ pc = "boxes_loop" /\ k <= Len(rows_for_oppgang)
    /\ target' = Target(rows_for_oppgang[k], offset, single8)
    /\ lines' = Place(lines, rows_for_oppgang[k], offset, single8)
    /\ k' = k + 1
    /\ UNCHANGED <<pc, rows_for_oppgang, offset, single8, boxes>>
    /\ UNCHANGED OtherThanBoxes

\* step 6): the candidate boxes, the empty ones filtered away
BoxesReturn ==
    /\ pc = "boxes_loop" /\ k > Len(rows_for_oppgang)
    /\ boxes' = FilterBoxes(Candidates(lines))
    /\ pc' = "boxes_done"
    /\ UNCHANGED <<rows_for_oppgang, k, offset, single8, lines, target>>
    /\ UNCHANGED OtherThanBoxes

NextBoxes == BoxesOfNothing \/ BoxesSetup \/ BoxesPlace \/ BoxesReturn

SpecBoxes == InitBoxes /\ [][NextBoxes]_vars

(***************************************************************************)
(* read_rows: the body of the row loop, for one data row.                  *)
(***************************************************************************)
\* faulty variant: a row whose identifier does not parse is passed over
ReadRowLenient(id, name) ==
    LET sid == Strip(id)
        nm  == Strip(name)
    IN  IF sid = <<>> \/ ~parse_seksjonsid(sid).ok THEN [kind |-> "continue"]
        ELSE [kind |-> "append",
              row  |-> [seksjonsid |-> sid,
                        oppgang    |-> parse_seksjonsid(sid).oppgang,
                        etasje     |-> parse_seksjonsid(sid).etasje,
                        unit       |-> parse_seksjonsid(sid).unit,
                        side_unit  |-> parse_seksjonsid(sid).side_by_unit,
                        display    |-> Upper(IF nm /= <<>> THEN nm ELSE SplitAll(sid)[2])]]

ReadRow(id, name) ==
    LET sid == Strip(id)
        nm  == Strip(name)
        p   == parse_seksjonsid(sid)
    IN  IF sid = <<>> THEN [kind |-> "continue"]
        ELSE IF ~p.ok THEN [kind |-> "raise", error |-> p.error]
        ELSE [kind |-> "append",
              row  |-> [seksjonsid |-> sid,
                        oppgang    |-> p.oppgang,
                        etasje     |-> p.etasje,
                        unit       |-> p.unit,
                        side_unit  |-> p.side_by_unit,
                        display    |-> Upper(IF nm /= <<>> THEN nm ELSE SplitAll(sid)[2])]]

(***************************************************************************)
(* One call of parse_seksjonsid, and one pass of the row loop, on every    *)
(* short string over a small alphabet.                                     *)
(***************************************************************************)
Chars == {"0", "1", "a", "|", " "}

Names == {<<>>, <<" ">>, <<" ", "a">>}

OtherThanParse ==
    <<rows_for_oppgang, k, offset, single8, lines, target, boxes,
      csv, i, rows, todo, pages, canvas, any_pages>>

InitParse ==
    /\ pc = "call"
    /\ seksjonsid \in SeqsUpTo(Chars, MaxLen)
    /\ navn \in Names
    /\ result = <<>>
    /\ BoxesIdle /\ MainIdle

\* parse_seksjonsid(seksjonsid) returns
ParseReturn ==
    /\ pc = "call" /\ parse_seksjonsid(seksjonsid).ok
    /\ result' = <<parse_seksjonsid(seksjonsid)>>
    /\ pc' = "parse_returned"
    /\ UNCHANGED <<seksjonsid, navn>> /\ UNCHANGED OtherThanParse

\* parse_seksjonsid(seksjonsid) raises ValueError
ParseRaise ==
    /\ pc = "call" /\ ~parse_seksjonsid(seksjonsid).ok
    /\ result' = <<parse_seksjonsid(seksjonsid)>>
    /\ pc' = "parse_raised"
    /\ UNCHANGED <<seksjonsid, navn>> /\ UNCHANGED OtherThanParse

\* the row loop of read_rows on the row (seksjonsid, navn)
RowStep ==
    /\ pc = "call"
    /\ result' = <<ReadRow(seksjonsid, navn)>>
    /\ pc' = "row_" \o ReadRow(seksjonsid, navn).kind
    /\ UNCHANGED <<seksjonsid, navn>> /\ UNCHANGED OtherThanParse

NextParse == ParseReturn \/ ParseRaise \/ RowStep

SpecParse == InitParse /\ [][NextParse]_vars

(***************************************************************************)
(* main: read_rows, the grouping, the page loop, the placeholder, save.    *)
(***************************************************************************)
\* code point of a character
Ord(c) ==
    CASE c = " " -> 32
      [] IsDigit(c) -> 48 + DigitVal(c)
      [] c = "?" -> 63
      [] c = "A" -> 65 [] c = "B" -> 66 [] c = "H" -> 72 [] c = "L" -> 76 [] c = "O" -> 79
      [] c = "X" -> 88 [] c = "Y" -> 89
      [] c = "a" -> 97 [] c = "b" -> 98 [] c = "h" -> 104 [] c = "l" -> 108 [] c = "o" -> 111
      [] c = "|" -> 124

\* s < t for Python strings
RECURSIVE StrLess(_, _)
StrLess(s, t) ==
    IF t = <<>> THEN FALSE
    ELSE IF s = <<>> THEN TRUE
    ELSE IF Head(s) /= Head(t) THEN Ord(Head(s)) < Ord(Head(t))
    ELSE StrLess(Tail(s), Tail(t))

\* by_oppgang.keys(), in the order in which the keys were inserted
RECURSIVE Keys(_)
Keys(rs) ==
    IF rs = <<>> THEN <<>>
    ELSE LET init == Keys(SubSeq(rs, 1, Len(rs) - 1))
             key  == rs[Len(rs)].oppgang
         IN  IF \E n \in 1..Len(init) : init[n] = key THEN init ELSE Append(init, key)

SeqToSet(q) == {q[n] : n \in 1..Len(q)}

RECURSIVE SortSet(_)
SortSet(S) ==
    IF S = {} THEN <<>>
    ELSE LET lo == CHOOSE x \in S : \A y \in S \ {x} : StrLess(x, y)
         IN  <<lo>> \o SortSet(S \ {lo})

\* faulty variant: the keys visited in insertion order
UnsortedKeys(rs) == Keys(rs)

\* sorted(by_oppgang.keys())
SortedKeys(rs) == SortSet(SeqToSet(Keys(rs)))

\* by_oppgang[key]
RECURSIVE by_oppgang(_, _)
by_oppgang(rs, key) ==
    IF rs = <<>> THEN <<>>
    ELSE IF Head(rs).oppgang = key THEN <<Head(rs)>> \o by_oppgang(Tail(rs), key)
    ELSE by_oppgang(Tail(rs), key)

\* identifier fields of the input files that are drawn
Identifiers ==
    { <<>>,
      <<" ">>,
      <<"A", "|", "H", "0", "4", "0", "1">>,
      <<"a", "|", "H", "0", "8", "0", "2", " ">>,
      <<"B", "|", "H", "0", "1", "0", "1">>,
      <<"B", "|", "H", "0", "5", "0", "2">>,
      <<"|", "|", "0", "4", "0", "1">>,
      <<"A", "H", "0", "1", "0", "1">>,
      <<"B", "|", "H", "0", "1">> }

NameFields == {<<>>, <<"o", "l", "a">>}

OtherThanMain ==
    <<seksjonsid, navn, result, rows_for_oppgang, k, offset, single8, lines, target, boxes>>

Init ==
    /\ pc = "read_rows"
    /\ csv \in SeqsUpTo(Identifiers \X NameFields, MaxCsvRows)
    /\ i = 1 /\ rows = <<>> /\ todo = <<>> /\ pages = <<>>
    /\ canvas = "none" /\ any_pages = FALSE
    /\ ParseIdle /\ BoxesIdle

\* for row in raw_reader: if not seksjonsid: continue
ReadContinue ==
    /\ pc = "read_rows" /\ i <= Len(csv)
    /\ ReadRow(csv[i][1], csv[i][2]).kind = "continue"
    /\ i' = i + 1
    /\ UNCHANGED <<pc, csv, rows, todo, pages, canvas, any_pages>>
    /\ UNCHANGED OtherThanMain

\* parse_seksjonsid raises: the ValueError leaves read_rows and main
ReadRaise ==
    /\ pc = "read_rows" /\ i <= Len(csv)
    /\ ReadRow(csv[i][1], csv[i][2]).kind = "raise"
    /\ pc' = "raised"
    /\ UNCHANGED <<csv, i, rows, todo, pages, canvas, any_pages>>
    /\ UNCHANGED OtherThanMain

\* rows.append({...})
ReadAppend ==
    /\ pc = "read_rows" /\ i <= Len(csv)
    /\ ReadRow(csv[i][1], csv[i][2]).kind = "append"
    /\ rows' = Append(rows, ReadRow(csv[i][1], csv[i][2]).row)
    /\ i' = i + 1
    /\ UNCHANGED <<pc, csv, todo, pages, canvas, any_pages>>
    /\ UNCHANGED OtherThanMain

\* read_rows returns; by_oppgang is filled, the canvas created, the keys sorted
OpenCanvas ==
    /\ pc = "read_rows" /\ i > Len(csv)
    /\ canvas' = "open"
    /\ any_pages' = FALSE
    /\ todo' = SortedKeys(rows)
    /\ pc' = "pages"
    /\ UNCHANGED <<csv, i, rows, pages>>
    /\ UNCHANGED OtherThanMain

\* for oppgang in sorted(...): if not boxes: continue
PageSkip ==
    /\ pc = "pages" /\ todo /= <<>>
    /\ build_boxes_for_oppgang(by_oppgang(rows, Head(todo))) = <<>>
    /\ todo' = Tail(todo)
    /\ UNCHANGED <<pc, csv, i, rows, pages, canvas, any_pages>>
    /\ UNCHANGED OtherThanMain

\* draw_oppgang_page(c, oppgang, boxes); any_pages = True
PageDraw ==
    /\ pc = "pages" /\ todo /= <<>>
    /\ build_boxes_for_oppgang(by_oppgang(rows, Head(todo))) /= <<>>
    /\ pages' = Append(pages, [oppgang |-> Head(todo),
                               boxes   |-> build_boxes_for_oppgang(by_oppgang(rows, Head(todo)))])
    /\ any_pages' = TRUE
    /\ todo' = Tail(todo)
    /\ UNCHANGED <<pc, csv, i, rows, canvas>>
    /\ UNCHANGED OtherThanMain

\* if not any_pages: draw_oppgang_page(c, "?", [])
Placeholder ==
    /\ pc = "pages" /\ todo = <<>> /\ ~any_pages
    /\ pages' = Append(pages, [oppgang |-> <<"?">>, boxes |-> <<>>])
    /\ pc' = "save"
    /\ UNCHANGED <<csv, i, rows, todo, canvas, any_pages>>
    /\ UNCHANGED OtherThanMain

\* c.save(); return 0
Save ==
    /\ \/ pc = "save"
       \/ pc = "pages" /\ todo = <<>> /\ any_pages
    /\ canvas' = "saved"
    /\ pc' = "done"
    /\ UNCHANGED <<csv, i, rows, todo, pages, any_pages>>
    /\ UNCHANGED OtherThanMain

Next ==
    \/ ReadContinue \/ ReadRaise \/ ReadAppend \/ OpenCanvas
    \/ PageSkip \/ PageDraw \/ Placeholder \/ Save

Spec == Init /\ [][Next]_vars

(***************************************************************************)
(* Properties of build_boxes_for_oppgang (under SpecBoxes).                *)
(***************************************************************************)
\* the row the last iteration of the placing loop handled
AfterRow == pc = "boxes_loop" /\ k > 1

LastRow == rows_for_oppgang[k - 1]

FloorsOf(rs) == {rs[n].etasje : n \in 1..Len(rs)}

\* number of floors of {1,2,3,4} that no record of the group has
AbsentLow(rs) == Cardinality({f \in 1..4 : f \notin FloorsOf(rs)})

Count8(rs) == Cardinality({n \in 1..Len(rs) : rs[n].etasje = 8})

\* 01 -> L, anything else -> R
SuffixSide(r) == IF r.unit = <<"0", "1">> THEN "L" ELSE "R"

\* suffix-derived side, but Right for the only floor-8 record of a group
EffectiveSide(r, rs) == IF r.etasje = 8 /\ Count8(rs) = 1 THEN "R" ELSE SuffixSide(r)

\* slot number 0..7 of a written cell
SlotOf(t) == IF t.band = "TOP" THEN t.pos ELSE t.pos + 4

\* C1: a record with floor f in 1..8 is written to (side, TOP, finalIndex) when
\* finalIndex = (8 - f) + offset is at most 3, to (side, BOT, finalIndex - 4) when
\* it is 4..7, and to no cell otherwise; offset is the number of floors of
\* {1,2,3,4} no record has; floors outside 1..8 are written nowhere; with floors
\* {2,3,4} only, offset is 1 and floor 4 lands at BOT position 1.
C1_Placement ==
    AfterRow =>
        LET r == LastRow
            f == r.etasje
            finalIndex == (8 - f) + AbsentLow(rows_for_oppgang)
        IN  /\ offset = AbsentLow(rows_for_oppgang)
            /\ IF f \in 1..8 /\ finalIndex <= 3
               THEN /\ target /= <<>>
                    /\ target[1].band = "TOP" /\ target[1].pos = finalIndex
                    /\ lines[<<target[1].side, "TOP">>][finalIndex] = Some(r.display)
               ELSE IF f \in 1..8 /\ 4 <= finalIndex /\ finalIndex <= 7
               THEN /\ target /= <<>>
                    /\ target[1].band = "BOT" /\ target[1].pos = finalIndex - 4
                    /\ lines[<<target[1].side, "BOT">>][finalIndex - 4] = Some(r.display)
               ELSE target = <<>>
            /\ (FloorsOf(rows_for_oppgang) = {2, 3, 4} /\ f = 4) =>
                   /\ offset = 1
                   /\ target /= <<>> /\ target[1].band = "BOT" /\ target[1].pos = 1

C1_Witness ==
    /\ AfterRow
    /\ FloorsOf(rows_for_oppgang) = {2, 3, 4}
    /\ LastRow.etasje = 4
    /\ target /= <<>> /\ target[1].band = "BOT" /\ target[1].pos = 1
    /\ lines[<<"L", "BOT">>][1] = Some(LastRow.display)

\* C2: the only floor-8 record of a group is placed in the Right column whatever
\* its suffix; with two or more floor-8 records each is placed on its
\* suffix-derived side; records of other floors keep their suffix-derived side.
C2_Floor8Side ==
    AfterRow =>
        LET r == LastRow
            n8 == Count8(rows_for_oppgang)
        IN  /\ (r.etasje = 8 /\ n8 = 1) =>
                   /\ target /= <<>> /\ target[1].side = "R"
                   /\ lines[<<"R", target[1].band>>][target[1].pos] = Some(r.display)
            /\ (r.etasje = 8 /\ n8 >= 2) =>
                   /\ target /= <<>> /\ target[1].side = SuffixSide(r)
                   /\ lines[<<SuffixSide(r), target[1].band>>][target[1].pos] = Some(r.display)
            /\ (r.etasje /= 8 /\ target /= <<>>) =>
                   /\ target[1].side = SuffixSide(r)
                   /\ lines[<<SuffixSide(r), target[1].band>>][target[1].pos] = Some(r.display)

C2_Witness ==
    /\ AfterRow
    /\ LastRow.etasje = 8 /\ LastRow.unit = <<"0", "1">>
    /\ Count8(rows_for_oppgang) = 1
    /\ target /= <<>> /\ target[1].side = "R"

\* a slot that shows nothing
EmptySlot(x) == x = None \/ x = Some(<<>>)

AllEmpty(ls4) == \A p \in DOMAIN ls4 : EmptySlot(ls4[p])

\* position of a box in the fixed order (L,1), (R,1), (L,2), (R,2)
OrderIndex(b) == 2 * (b.order - 1) + (IF b.column = "L" THEN 1 ELSE 2)

BandOfOrder(o) == IF o = 1 THEN "TOP" ELSE "BOT"

\* C3: between 0 and 4 boxes come back, a subsequence of (L,1), (R,1), (L,2),
\* (R,2); each has exactly 4 slots, one of them non-empty; a candidate box is
\* omitted iff its four slots are all empty; a group that fills TOP/Left cells
\* only yields exactly one box.
C3_Boxes ==
    pc = "boxes_done" =>
        /\ Len(boxes) \in 0..4
        /\ \A n \in 1..Len(boxes) :
              /\ boxes[n].column \in Sides /\ boxes[n].order \in {1, 2}
              /\ Cardinality(DOMAIN boxes[n].lines) = 4
              /\ ~AllEmpty(boxes[n].lines)
              /\ boxes[n].lines = lines[<<boxes[n].column, BandOfOrder(boxes[n].order)>>]
        /\ \A n, m \in 1..Len(boxes) : n < m => OrderIndex(boxes[n]) < OrderIndex(boxes[m])
        /\ \A s \in Sides, o \in {1, 2} :
              (\A n \in 1..Len(boxes) : ~(boxes[n].column = s /\ boxes[n].order = o))
                  <=> AllEmpty(lines[<<s, BandOfOrder(o)>>])
        /\ ( /\ ~AllEmpty(lines[<<"L", "TOP">>])
             /\ \A key \in (Sides \X Bands) \ {<<"L", "TOP">>} : AllEmpty(lines[key]) )
               => Len(boxes) = 1

C3_Witness ==
    /\ pc = "boxes_done"
    /\ Len(rows_for_oppgang) >= 2
    /\ ~AllEmpty(lines[<<"L", "TOP">>])
    /\ \A key \in (Sides \X Bands) \ {<<"L", "TOP">>} : AllEmpty(lines[key])
    /\ Len(boxes) = 1 /\ boxes[1].column = "L" /\ boxes[1].order = 1

\* a record that is written to a cell: its floor is in 1..8 and above the offset
IsPlaced(r, rs) == r.etasje \in 1..8 /\ r.etasje > AbsentLow(rs)

\* two records written to the same cell: same floor and same effective side
SameCell(r1, r2, rs) ==
    /\ IsPlaced(r1, rs) /\ IsPlaced(r2, rs)
    /\ r1.etasje = r2.etasje
    /\ EffectiveSide(r1, rs) = EffectiveSide(r2, rs)

NoClash(rs) == \A n, m \in 1..Len(rs) : n /= m => ~SameCell(rs[n], rs[m], rs)

Swap(rs, n, m) == [rs EXCEPT ![n] = rs[m], ![m] = rs[n]]

\* the reorderings of a group that are compared: all of them for a short
\* group; for a longer one its reversal and every swap of two neighbours
Reorderings(rs) ==
    IF Len(rs) <= 4
    THEN {[n \in 1..Len(rs) |-> rs[p[n]]] : p \in Permutations(1..Len(rs))}
    ELSE {Reverse(rs)} \cup {Swap(rs, n, n + 1) : n \in 1..(Len(rs) - 1)}

\* the cell (floor f, side s) would be written to, as <<side, band, pos>>
CellOf(r, rs) ==
    LET finalIndex == (8 - r.etasje) + AbsentLow(rs)
    IN  <<EffectiveSide(r, rs),
          IF finalIndex <= 3 THEN "TOP" ELSE "BOT",
          IF finalIndex <= 3 THEN finalIndex ELSE finalIndex - 4>>

\* the rows of rs written to cell c, in input order
WritersOf(c, rs) == {n \in 1..Len(rs) : IsPlaced(rs[n], rs) /\ CellOf(rs[n], rs) = c}

Latest(S) == CHOOSE n \in S : \A m \in S : m <= n

LastWriteWins(rs, ls) ==
    \A s \in Sides, b \in Bands, p \in 0..3 :
        LET w == WritersOf(<<s, b, p>>, rs)
        IN  ls[<<s, b>>][p] = IF w = {} THEN None ELSE Some(rs[Latest(w)].display)

\* C4 (as amended): without two records for the same cell every reordering of
\* the group yields the same boxes; a cell holds the text of the last record
\* written to it; and swapping the last record of a cell with an earlier record
\* of that cell whose text differs changes the boxes.
C4_OrderAmended ==
    pc = "boxes_done" =>
        LET rs == rows_for_oppgang
        IN  /\ NoClash(rs) => \A q \in Reorderings(rs) : build_boxes_for_oppgang(q) = boxes
            /\ rs /= <<>> => LastWriteWins(rs, lines)
            /\ \A n, m \in 1..Len(rs) :
                  ( /\ n < m /\ SameCell(rs[n], rs[m], rs)
                    /\ rs[n].display /= rs[m].display
                    /\ \A j \in (m + 1)..Len(rs) : ~SameCell(rs[m], rs[j], rs) )
                      => build_boxes_for_oppgang(Swap(rs, n, m)) /= boxes

\* C4 (as claimed): ... and swapping any two records of the same cell whose
\* texts differ changes the boxes.
C4_OrderOriginal ==
    pc = "boxes_done" =>
        LET rs == rows_for_oppgang
        IN  /\ NoClash(rs) => \A q \in Reorderings(rs) : build_boxes_for_oppgang(q) = boxes
            /\ rs /= <<>> => LastWriteWins(rs, lines)
            /\ \A n, m \in 1..Len(rs) :
                  ( /\ n < m /\ SameCell(rs[n], rs[m], rs)
                    /\ rs[n].display /= rs[m].display )
                      => build_boxes_for_oppgang(Swap(rs, n, m)) /= boxes

C4_Witness ==
    /\ pc = "boxes_done"
    /\ Len(rows_for_oppgang) = 2
    /\ SameCell(rows_for_oppgang[1], rows_for_oppgang[2], rows_for_oppgang)
    /\ rows_for_oppgang[1].display = <<"X">> /\ rows_for_oppgang[2].display = <<"Y">>
    /\ build_boxes_for_oppgang(Swap(rows_for_oppgang, 1, 2)) /= boxes
    /\ \E n \in 1..Len(boxes), p \in 0..3 : boxes[n].lines[p] = Some(<<"Y">>)

PresentIn1to8(rs) == FloorsOf(rs) \cap (1..8)

\* C5 (as amended): with present floors exactly {2,...,8} every record's slot
\* is its base slot shifted down by 1, so the floor-2 record is at slot 7 (BOT
\* position 3), not at slot 6.
C5_OffsetAmended ==
    (AfterRow /\ PresentIn1to8(rows_for_oppgang) = 2..8 /\ LastRow.etasje \in 1..8) =>
        /\ target /= <<>>
        /\ SlotOf(target[1]) = (8 - LastRow.etasje) + 1
        /\ LastRow.etasje = 2 => (target[1].band = "BOT" /\ target[1].pos = 3)
        /\ lines[<<target[1].side, target[1].band>>][target[1].pos] = Some(LastRow.display)

\* C5 (as claimed): ... the floor-2 record is at slot 4 (BOT position 0).
C5_OffsetOriginal ==
    (AfterRow /\ PresentIn1to8(rows_for_oppgang) = 2..8 /\ LastRow.etasje \in 1..8) =>
        /\ target /= <<>>
        /\ SlotOf(target[1]) = (8 - LastRow.etasje) + 1
        /\ LastRow.etasje = 2 => (target[1].band = "BOT" /\ target[1].pos = 0)

C5_Witness ==
    /\ AfterRow
    /\ PresentIn1to8(rows_for_oppgang) = 2..8
    /\ LastRow.etasje = 2
    /\ target /= <<>> /\ SlotOf(target[1]) = 7

\* C10: a record with floor f in 1..8 is left unplaced iff f <= offset; none is
\* dropped when the absent floors of {1,2,3,4} are the lowest ones {1..n}; and
\* when a floor of {1,2,3,4} is absent while floor 1 is present, every floor-1
\* record is dropped.
C10_SilentDrop ==
    (AfterRow /\ LastRow.etasje \in 1..8) =>
        LET rs == rows_for_oppgang
            absent == {f \in 1..4 : f \notin FloorsOf(rs)}
        IN  /\ (target = <<>>) <=> (LastRow.etasje <= Cardinality(absent))
            /\ (\E n \in 0..4 : absent = 1..n) => target /= <<>>
            /\ (absent /= {} /\ LastRow.etasje = 1) => target = <<>>

C10_Witness ==
    /\ AfterRow
    /\ FloorsOf(rows_for_oppgang) = {1, 2, 4}
    /\ LastRow.etasje = 1
    /\ target = <<>>
    /\ lines = EmptyLines

(***************************************************************************)
(* Properties of parse_seksjonsid and of the row loop (under SpecParse).   *)
(***************************************************************************)
HasBar(s) == \E n \in 1..Len(s) : s[n] = "|"

\* everything after the first '|'
AfterBar(s) == SubSeq(s, FirstBar(s) + 1, Len(s))

\* length of the run of digits s ends in
RECURSIVE DigitRun(_)
DigitRun(s) ==
    IF s /= <<>> /\ IsDigit(s[Len(s)]) THEN 1 + DigitRun(SubSeq(s, 1, Len(s) - 1)) ELSE 0

\* C6 (as amended): parse_seksjonsid fails iff the input is empty, has no '|',
\* or the part after the first '|', with surrounding whitespace trimmed, does
\* not end in at least 4 consecutive digits.
C6_ParseFailsAmended ==
    pc \in {"parse_returned", "parse_raised"} =>
        /\ (pc = "parse_raised") <=>
              \/ seksjonsid = <<>>
              \/ ~HasBar(seksjonsid)
              \/ DigitRun(Strip(AfterBar(seksjonsid))) < 4
        /\ result[1].ok <=> (pc = "parse_returned")

\* C6 (as claimed): ... does not end in exactly 4 consecutive digits.
C6_ParseFailsOriginal ==
    pc \in {"parse_returned", "parse_raised"} =>
        (pc = "parse_raised") <=>
              \/ seksjonsid = <<>>
              \/ ~HasBar(seksjonsid)
              \/ DigitRun(AfterBar(seksjonsid)) /= 4

C6_Witness ==
    /\ pc = "parse_returned"
    /\ DigitRun(AfterBar(seksjonsid)) >= 5
    /\ result[1].ok /\ result[1].etasje = 10

\* C7: every record of read_rows has a non-empty displayText: the trimmed name
\* uppercased when it is non-empty, otherwise everything after the first '|' of
\* the identifier, uppercased.
C7_DisplayText ==
    pc = "row_append" =>
        LET rec == result[1].row
        IN  /\ rec.display /= <<>>
            /\ rec.display = IF Strip(navn) /= <<>> THEN Upper(Strip(navn))
                             ELSE Upper(AfterBar(rec.seksjonsid))

(***************************************************************************)
(* Properties of main (under Spec).                                        *)
(***************************************************************************)
BlankRow(n) == Strip(csv[n][1]) = <<>>

BadRow(n) == ~BlankRow(n) /\ ~parse_seksjonsid(Strip(csv[n][1])).ok

\* C8: a row with a non-blank identifier that parse_seksjonsid rejects aborts
\* the run, and no output document is created or written, whatever rows precede
\* or follow it; rows with a blank identifier are skipped without error.
C8_FailFast ==
    LET bad == {n \in 1..Len(csv) : BadRow(n)}
        blank == {n \in 1..Len(csv) : BlankRow(n)}
    IN  /\ bad /= {} => (canvas = "none" /\ pages = <<>> /\ pc \in {"read_rows", "raised"})
        /\ pc = "raised" => (i \in bad /\ (\A n \in bad : i <= n) /\ ~ENABLED Next)
        /\ pc = "read_rows" => \A n \in bad : i <= n
        /\ pc = "read_rows" =>
              Len(rows) = Cardinality({n \in 1..(i - 1) : ~BlankRow(n)})
        /\ pc \in {"pages", "save", "done"} =>
              (bad = {} /\ Len(rows) = Len(csv) - Cardinality(blank))

C8_Witness ==
    /\ pc = "raised"
    /\ Len(csv) = 3 /\ i = 2
    /\ rows /= <<>>
    /\ ~BadRow(3) /\ ~BlankRow(3)
    /\ canvas = "none" /\ pages = <<>>

\* C9: main emits one page for each entrance that yields at least one box, in
\* ascending order of the entrance key, none for an entrance without boxes, and
\* a single placeholder page "?" without boxes when no entrance yields a box;
\* there is always at least one page and the placeholder is never beside an
\* entrance page.
C9_Pages ==
    pc = "done" =>
        LET keys == {rows[n].oppgang : n \in 1..Len(rows)}
            shown == {key \in keys : build_boxes_for_oppgang(by_oppgang(rows, key)) /= <<>>}
        IN  /\ Len(pages) >= 1
            /\ canvas = "saved"
            /\ shown = {} => pages = <<[oppgang |-> <<"?">>, boxes |-> <<>>]>>
            /\ shown /= {} =>
                  /\ Len(pages) = Cardinality(shown)
                  /\ \A n \in 1..Len(pages) :
                        /\ pages[n].oppgang \in shown
                        /\ pages[n].boxes /= <<>>
                        /\ pages[n].boxes =
                               build_boxes_for_oppgang(by_oppgang(rows, pages[n].oppgang))
                  /\ \A n, m \in 1..Len(pages) :
                        n < m => StrLess(pages[n].oppgang, pages[m].oppgang)

C9_Witness ==
    /\ pc = "done"
    /\ Len(rows) = 3
    /\ rows[1].oppgang = <<"B">> /\ rows[2].oppgang = <<"A">> /\ rows[3].oppgang = <<>>
    /\ Len(pages) = 2
    /\ pages[1].oppgang = <<"A">> /\ pages[2].oppgang = <<"B">>

====
